---------------------------- MODULE Spec2Model ----------------------------
(***************************************************************************)
(* TELP link-prediction harness (src/TELP/Deeplearning/main.py and         *)
(* main-Copy1.py): the 5-fold edge splitter with its rejection-sampled     *)
(* negatives, the per-fold epoch loop with early stopping and best         *)
(* snapshot, and the batched evaluator.                                    *)
(*                                                                         *)
(* Sequences are 1-based here; Python's 0-based list index i is position   *)
(* i+1.  An edge is a pair <<u, v>> of node ids.                           *)
(***************************************************************************)
EXTENDS Integers, Sequences, FiniteSets, TLC

(***************************************************************************)
(* Program constants.                                                      *)
(***************************************************************************)
K == 5
NumRuns == 2
KFoldSeed == 42
ShuffleSeedBase == 42

(***************************************************************************)
(* Bounds of the model.                                                    *)
(***************************************************************************)
\* number of seeded-generator universes of the positive-split specification
NumSplitStreams == 4
\* largest number of canonical edges fed to the positive-split specification
MaxEdges == 25
\* the fold whose split of run 1 is kept for comparison with the later runs
RefFold == 1
\* largest epoch budget and largest scheduler divisor t of the epoch loop
MaxEpochs == 6
MaxT == 2
\* largest number of pairs and largest batch size given to the evaluator
MaxPairs == 8
MaxBatch == 4
\* largest node and largest length of the enumerations given to the
\* canonicalisation
MaxNode == 2
MaxEnum == 3
\* largest number of columns of masked_edges in a call of train()
MaxTrainEdges == 12
\* largest number of epochs of a fold in the training-graph specification
GraphEpochs == 2

(***************************************************************************)
(* Small helpers.                                                          *)
(***************************************************************************)
Max(a, b) == IF a >= b THEN a ELSE b
Min(a, b) == IF a <= b THEN a ELSE b
Range(s) == {s[i] : i \in 1..Len(s)}
Prefix(s, n) == SubSeq(s, 1, Min(n, Len(s)))
Suffix(s, n) == SubSeq(s, Min(n, Len(s)) + 1, Len(s))
NoDup(s) == \A i, j \in 1..Len(s) : i # j => s[i] # s[j]

\* tuple comparison of Python pairs
PairLess(a, b) == a[1] < b[1] \/ (a[1] = b[1] /\ a[2] < b[2])

\* sorted(list(S)) for a set of pairs: position i+1 holds the pair that has
\* exactly i smaller pairs in S
SortedPairs(S) ==
    [i \in 1..Cardinality(S) |->
        CHOOSE x \in S : Cardinality({y \in S : PairLess(y, x)}) = i - 1]

\* ascending sequence of a set of naturals
SortedNats(S) ==
    [i \in 1..Cardinality(S) |->
        CHOOSE x \in S : Cardinality({y \in S : y < x}) = i - 1]

\* faulty variant: the pair is kept as enumerated
Canon_as_enumerated(p) == p

\* (u, v) if u < v else (v, u)
Canon(p) == IF p[1] < p[2] THEN p ELSE <<p[2], p[1]>>

\* make_undirected_unique_edges: canonicalise, deduplicate, sort
make_undirected_unique_edges(enum) ==
    SortedPairs({Canon(enum[i]) : i \in 1..Len(enum)})

(***************************************************************************)
(* Seeded generators.  KFold(shuffle=True, random_state=42) and            *)
(* np.random.default_rng(42 + fold) are deterministic functions of their   *)
(* seed: the k-th shuffle of a list of length n drawn from a generator     *)
(* seeded with `seed` applies one fixed permutation.  The bit generators   *)
(* themselves are library code; a "stream" stands for one possible         *)
(* universe of them, and the permutation is a Fisher-Yates shuffle driven  *)
(* by a small congruential generator so that it is a function of           *)
(* (stream, seed, k, n) and nothing else.                                  *)
(***************************************************************************)
LcgNext(x) == (x * 75 + 74) % 65537

SwapAt(s, i, j) == [s EXCEPT ![i] = s[j], ![j] = s[i]]

\* for i = n down to 2: swap positions i and 1 + (x mod i), x the next draw
RECURSIVE FisherYates(_, _, _)
FisherYates(s, i, x) ==
    IF i <= 1 THEN s
    ELSE CHOOSE r \in {FisherYates(s2, i - 1, x2) :
                          s2 \in {SwapAt(s, i, (x % i) + 1)}, x2 \in {LcgNext(x)}} : TRUE

\* the permutation (a sequence over 1..n) of the k-th shuffle of the generator
SeededPerm(stream, seed, k, n) ==
    FisherYates([i \in 1..n |-> i], n,
                LcgNext((seed * 131 + stream * 7919 + k * 31) % 65537))

\* list.shuffle: the shuffled list holds s[perm[i]] at position i
Shuffled(s, perm) == [i \in 1..Len(s) |-> s[perm[i]]]

(***************************************************************************)
(* sklearn KFold(n_splits=5, shuffle=True, random_state=42).split: the     *)
(* shuffled index array is cut into K consecutive groups, the first        *)
(* n mod K of size n div K + 1 and the others of size n div K; fold i      *)
(* tests on group i and both index arrays are returned ascending.          *)
(***************************************************************************)
\* faulty variant: the n mod K left-over samples are given to no fold
FoldSize_truncated(n, i) == n \div K

FoldSize(n, i) == (n \div K) + (IF i <= n % K THEN 1 ELSE 0)

RECURSIVE FoldStart(_, _)
FoldStart(n, i) == IF i <= 1 THEN 0 ELSE FoldStart(n, i - 1) + FoldSize(n, i - 1)

TestIndexSet(stream, n, i) ==
    LET perm == SeededPerm(stream, KFoldSeed, 0, n)
    IN  {perm[j] : j \in (FoldStart(n, i) + 1)..(FoldStart(n, i) + FoldSize(n, i))}

test_idx(stream, n, i) == SortedNats(TestIndexSet(stream, n, i))
train_idx(stream, n, i) == SortedNats((1..n) \ TestIndexSet(stream, n, i))

\* [all_positive_edges[i] for i in idx]
Select(edges, idx) == [j \in 1..Len(idx) |-> edges[idx[j]]]

(***************************************************************************)
(* Validation carve-out (main.py 188-196).                                 *)
(***************************************************************************)
\* faulty variant: the floor of one validation edge is missing
n_val_unfloored(len) == len \div 10

\* n_val = max(1, int(0.10 * len(train_pos_edges))); 0.10 * n never rounds
\* below a whole number, so int() is the integer quotient by 10
n_val(len) == Max(1, len \div 10)

\* rng.shuffle(train_pos_edges): first shuffle of default_rng(42 + fold)
ShuffledTrainPos(stream, fold, train_pos) ==
    Shuffled(train_pos, SeededPerm(stream, ShuffleSeedBase + fold, 0, Len(train_pos)))

\* rng.shuffle(train_neg_edges): second shuffle of the same generator
ShuffledTrainNeg(stream, fold, train_neg) ==
    Shuffled(train_neg, SeededPerm(stream, ShuffleSeedBase + fold, 1, Len(train_neg)))

\* val_pos_edges = train_pos_edges[:n_val]
ValPos(shuffled) == Prefix(shuffled, n_val(Len(shuffled)))
\* faulty variant: the training slice starts one position early
FinalTrainPos_overlapping(shuffled) == Suffix(shuffled, n_val(Len(shuffled)) - 1)

\* final_train_pos = train_pos_edges[n_val:]
FinalTrainPos(shuffled) == Suffix(shuffled, n_val(Len(shuffled)))
\* val_neg_edges = train_neg_edges[:n_val], n_val taken from the positives
ValNeg(shuffledNeg, nPos) == Prefix(shuffledNeg, n_val(nPos))

(***************************************************************************)
(* Input graphs.  A graph is the list of its nodes (list(G.nodes()), ids   *)
(* 0..N-1 after the relabelling of main.py 324-326, every node an          *)
(* endpoint of some edge because the graph is read from an edge list) and  *)
(* the enumeration G.edges(), which reports each undirected edge once, in  *)
(* either orientation.                                                     *)
(***************************************************************************)
\* 5-cycle: 5 edges, 5 non-edges
Cycle5 == [nodes |-> {0, 1, 2, 3, 4},
           edges |-> << <<0, 1>>, <<2, 1>>, <<2, 3>>, <<4, 3>>, <<0, 4>> >>]
\* 5-cycle plus a chord: 6 edges, 4 non-edges
Chord5 == [nodes |-> {0, 1, 2, 3, 4},
           edges |-> << <<0, 1>>, <<2, 1>>, <<2, 3>>, <<4, 3>>, <<0, 4>>, <<2, 0>> >>]
\* complete graph on 5 nodes: 10 edges, no non-edge
Complete5 == [nodes |-> {0, 1, 2, 3, 4},
              edges |-> << <<0, 1>>, <<0, 2>>, <<0, 3>>, <<0, 4>>, <<2, 1>>,
                           <<1, 3>>, <<1, 4>>, <<3, 2>>, <<2, 4>>, <<4, 3>> >>]
\* complete graph on 3 nodes: 3 edges, fewer than the 5 folds
Complete3 == [nodes |-> {0, 1, 2},
              edges |-> << <<0, 1>>, <<2, 1>>, <<0, 2>> >>]

Graphs == {Cycle5, Chord5, Complete5, Complete3}

\* all canonical pairs over eight nodes, ascending: the edge pool of the
\* positive-split specification
PairPool == SortedPairs({p \in (0..7) \X (0..7) : p[1] < p[2]})
\* the first n pairs of the pool, every second one enumerated as (v, u)
PoolEnum(n) == [i \in 1..n |-> IF i % 2 = 0 THEN <<PairPool[i][2], PairPool[i][1]>>
                                ELSE PairPool[i]]

(***************************************************************************)
(* State.                                                                  *)
(***************************************************************************)
VARIABLES
    \* --- main() and link_prediction_cross_validation, main.py 130-196 ---
    stream,             \* universe of the seeded generators (fixed per behaviour)
    G,                  \* the input graph
    runs,               \* args.runs
    run,                \* index of the runs loop (main.py 345), 1-based
    fold,               \* enumerate(kf.split(...), start=1)
    pc,                 \* position of the splitter
    all_positive_edges, \* main.py 136
    existing_edges,     \* main.py 142
    train_pos_edges,    \* main.py 152, shuffled in place at 189
    test_pos_edges,     \* main.py 153
    test_neg_edges,     \* main.py 162
    test_neg_set,
    train_neg_edges,    \* main.py 175, shuffled in place at 190
    train_neg_set,
    val_pos_edges,      \* main.py 193
    final_train_pos,    \* main.py 194
    val_neg_edges,      \* main.py 196
    test_count,         \* history: edge -> number of folds of this call testing on it
    first_run,          \* history: what run 1 produced for fold RefFold
    \* --- the epoch loop of one fold, main.py 213-258 ---
    epochs,             \* args.epochs
    t,                  \* args.t
    patience,           \* main.py 139
    epoch,              \* the loop variable of main.py 227
    es_pc,              \* position in the epoch loop
    heap,               \* tensor storage: tensor id -> value
    best_valid_AUC,     \* main.py 224
    best_epoch,
    cnt_wait,
    best_state,         \* main.py 225: None, or key -> tensor id
    valid_AUC,          \* main.py 233
    aucs,               \* history: the validation AUCs of the epochs run so far
    trained,            \* history: number of train() calls made
    final_params,       \* history: key -> value read by the final test() call
    \* --- batched_scores of test(), main.py 75-91 ---
    n_pairs,            \* edge_idx.size(1)
    batch_size,         \* args.batch_size
    next_idx,           \* position of the DataLoader over range(n_pairs)
    preds,              \* main.py 76
    pred,               \* the result of batched_scores
    labels,             \* torch.ones_like(pred)
    ev_pc               \* position in test()

\* make_undirected_unique_edges on its own: the enumeration given, the list
\* returned, and, each empty or holding one list, the list returned for
\* that list and the list returned for the enumeration with some entries
\* turned round
VARIABLES enum, canon, recanon, flipped, cn_pc

\* one call of train(): columns of masked_edges, batch size, columns the
\* loader has not yielded yet, calls of the encoder, optimizer steps, the
\* embedding each mini-batch was scored with
VARIABLES tr_n, tr_bs, tr_left, encoder_calls, opt_steps, batch_z, tr_pc

\* the training graph: train_data.edge_index, the fold it was built for, the
\* epochs run on it, the edge indices the encoder was given
VARIABLES train_edge_index, tg_fold, tg_epoch, tg_pc, enc_seen

cfgVars == <<stream, G, runs>>
edgeVars == <<all_positive_edges, existing_edges>>
posVars == <<train_pos_edges, test_pos_edges>>
testNegVars == <<test_neg_edges, test_neg_set>>
trainNegVars == <<train_neg_edges, train_neg_set>>
carveVars == <<val_pos_edges, final_train_pos, val_neg_edges>>
histVars == <<test_count, first_run>>

splitVars == <<cfgVars, run, fold, pc, edgeVars, posVars, testNegVars,
               trainNegVars, carveVars, histVars>>

esVars == <<epochs, t, patience, epoch, es_pc, heap, best_valid_AUC, best_epoch,
            cnt_wait, best_state, valid_AUC, aucs, trained, final_params>>

evalVars == <<n_pairs, batch_size, next_idx, preds, pred, labels, ev_pc>>

canonVars == <<enum, canon, recanon, flipped, cn_pc>>

trainVars == <<tr_n, tr_bs, tr_left, encoder_calls, opt_steps, batch_z, tr_pc>>

graphVars == <<train_edge_index, tg_fold, tg_epoch, tg_pc, enc_seen>>

auxVars == <<canonVars, trainVars, graphVars>>

mainVars == <<splitVars, esVars, evalVars>>

vars == <<mainVars, auxVars>>

\* what a function modelled on its own leaves alone
restOfCanon == <<mainVars, trainVars, graphVars>>
restOfTrain == <<mainVars, canonVars, graphVars>>

None == "None"

\* the part of the state a specification does not use
SplitIdle ==
    /\ stream = 1
    /\ G = Complete3
    /\ runs = 0
    /\ run = 0
    /\ fold = 0
    /\ pc = "idle"
    /\ all_positive_edges = <<>>
    /\ existing_edges = {}
    /\ train_pos_edges = <<>>
    /\ test_pos_edges = <<>>
    /\ test_neg_edges = <<>>
    /\ test_neg_set = {}
    /\ train_neg_edges = <<>>
    /\ train_neg_set = {}
    /\ val_pos_edges = <<>>
    /\ final_train_pos = <<>>
    /\ val_neg_edges = <<>>
    /\ test_count = <<>>
    /\ first_run = None

EsIdle ==
    /\ epochs = 0
    /\ t = 1
    /\ patience = 0
    /\ epoch = 0
    /\ es_pc = "idle"
    /\ heap = <<>>
    /\ best_valid_AUC = 0
    /\ best_epoch = 0
    /\ cnt_wait = 0
    /\ best_state = None
    /\ valid_AUC = 0
    /\ aucs = <<>>
    /\ trained = 0
    /\ final_params = None

EvalIdle ==
    /\ n_pairs = 0
    /\ batch_size = 1
    /\ next_idx = 0
    /\ preds = <<>>
    /\ pred = None
    /\ labels = None
    /\ ev_pc = "idle"

CanonIdle ==
    /\ enum = <<>>
    /\ canon = None
    /\ recanon = <<>>
    /\ flipped = <<>>
    /\ cn_pc = "idle"

TrainIdle ==
    /\ tr_n = 0
    /\ tr_bs = 1
    /\ tr_left = 0
    /\ encoder_calls = 0
    /\ opt_steps = 0
    /\ batch_z = <<>>
    /\ tr_pc = "idle"

GraphIdle ==
    /\ train_edge_index = <<>>
    /\ tg_fold = 0
    /\ tg_epoch = 0
    /\ tg_pc = "idle"
    /\ enc_seen = {}

AuxIdle == CanonIdle /\ TrainIdle /\ GraphIdle

(***************************************************************************)
(* The fold splitter: link_prediction_cross_validation, main.py 130-196,   *)
(* driven by the runs loop of main(), main.py 345-353.                     *)
(***************************************************************************)
SplitStart(nruns) ==
    /\ stream = 1
    /\ G \in Graphs
    /\ runs = nruns
    /\ run = 0
    /\ fold = 0
    /\ pc = "main"
    /\ all_positive_edges = <<>>
    /\ existing_edges = {}
    /\ train_pos_edges = <<>>
    /\ test_pos_edges = <<>>
    /\ test_neg_edges = <<>>
    /\ test_neg_set = {}
    /\ train_neg_edges = <<>>
    /\ train_neg_set = {}
    /\ val_pos_edges = <<>>
    /\ final_train_pos = <<>>
    /\ val_neg_edges = <<>>
    /\ test_count = <<>>
    /\ first_run = None

Init == SplitStart(NumRuns) /\ EsIdle /\ EvalIdle /\ AuxIdle

\* for run in range(args.runs): call link_prediction_cross_validation, whose
\* prologue (main.py 136-146) canonicalises the edges and builds KFold
RunNext ==
    /\ pc = "main"
    /\ run < runs
    /\ run' = run + 1
    /\ all_positive_edges' = make_undirected_unique_edges(G.edges)
    /\ existing_edges' = Range(all_positive_edges')
    /\ test_count' = [e \in existing_edges' |-> 0]
    /\ fold' = 0
    /\ pc' = "for_fold"
    /\ UNCHANGED <<cfgVars, posVars, testNegVars, trainNegVars, carveVars,
                   first_run, esVars, evalVars, auxVars>>

\* the runs loop is exhausted
RunsDone ==
    /\ pc = "main"
    /\ run = runs
    /\ pc' = "exit"
    /\ UNCHANGED <<cfgVars, run, fold, edgeVars, posVars, testNegVars,
                   trainNegVars, carveVars, histVars, esVars, evalVars, auxVars>>

\* kf.split raises ValueError when there are fewer samples than splits
KFoldRaise ==
    /\ pc = "for_fold"
    /\ Len(all_positive_edges) < K
    /\ pc' = "raised"
    /\ UNCHANGED <<cfgVars, run, fold, edgeVars, posVars, testNegVars,
                   trainNegVars, carveVars, histVars, esVars, evalVars, auxVars>>

\* train_pos_edges = [all_positive_edges[i] for i in train_idx]
TrainPosRaw(s, edges, f) == Select(edges, train_idx(s, Len(edges), f))
\* test_pos_edges = [all_positive_edges[i] for i in test_idx]
TestPos(s, edges, f) == Select(edges, test_idx(s, Len(edges), f))

\* main.py 148-162: the next (train_idx, test_idx), the positive lists, and the
\* empty test-negative list and set
FoldNext ==
    /\ pc = "for_fold"
    /\ Len(all_positive_edges) >= K
    /\ fold < K
    /\ fold' = fold + 1
    /\ train_pos_edges' = TrainPosRaw(stream, all_positive_edges, fold + 1)
    /\ test_pos_edges' = TestPos(stream, all_positive_edges, fold + 1)
    /\ test_count' = [e \in DOMAIN test_count |->
                        test_count[e] + (IF e \in Range(test_pos_edges') THEN 1 ELSE 0)]
    /\ test_neg_edges' = <<>>
    /\ test_neg_set' = {}
    /\ pc' = "test_neg_while"
    /\ UNCHANGED <<cfgVars, run, edgeVars, trainNegVars, carveVars, first_run,
                   esVars, evalVars, auxVars>>

\* the generator of kf.split is exhausted: the call returns (main.py 284)
FoldsDone ==
    /\ pc = "for_fold"
    /\ Len(all_positive_edges) >= K
    /\ fold = K
    /\ pc' = "main"
    /\ UNCHANGED <<cfgVars, run, fold, edgeVars, posVars, testNegVars,
                   trainNegVars, carveVars, histVars, esVars, evalVars, auxVars>>

\* main.py 166-170: the draws the test-negative loop skips
TestNegRejects(u, v, existing, tset) ==
    \/ u = v
    \/ Canon(<<u, v>>) \in existing
    \/ Canon(<<u, v>>) \in tset

\* faulty variant: the train-negative loop does not look at the test negatives
TrainNegRejects_ignoring_test(u, v, existing, trset, tset) ==
    \/ u = v
    \/ Canon(<<u, v>>) \in existing
    \/ Canon(<<u, v>>) \in trset

\* main.py 179-183: the draws the train-negative loop skips
TrainNegRejects(u, v, existing, trset, tset) ==
    \/ u = v
    \/ Canon(<<u, v>>) \in existing
    \/ Canon(<<u, v>>) \in trset
    \/ Canon(<<u, v>>) \in tset

\* main.py 163: while len(test_neg_edges) < len(test_pos_edges); on exit,
\* main.py 175
TestNegWhile ==
    /\ pc = "test_neg_while"
    /\ IF Len(test_neg_edges) < Len(test_pos_edges)
       THEN /\ pc' = "test_neg_draw"
            /\ UNCHANGED trainNegVars
       ELSE /\ pc' = "train_neg_while"
            /\ train_neg_edges' = <<>>
            /\ train_neg_set' = {}
    /\ UNCHANGED <<cfgVars, run, fold, edgeVars, posVars, testNegVars, carveVars,
                   histVars, esVars, evalVars, auxVars>>

\* main.py 164-172: one iteration of the loop body with the draw (u, v);
\* random.choice uses the process-wide generator, which main.py never seeds
TestNegDrawOf(u, v) ==
    /\ pc = "test_neg_draw"
    /\ u \in G.nodes /\ v \in G.nodes
    /\ IF TestNegRejects(u, v, existing_edges, test_neg_set)
       THEN UNCHANGED testNegVars
       ELSE /\ test_neg_set' = test_neg_set \cup {Canon(<<u, v>>)}
            /\ test_neg_edges' = Append(test_neg_edges, <<u, v>>)
    /\ pc' = "test_neg_while"
    /\ UNCHANGED <<cfgVars, run, fold, edgeVars, posVars, trainNegVars, carveVars,
                   histVars, esVars, evalVars, auxVars>>

TestNegDraw == \E u \in G.nodes, v \in G.nodes : TestNegDrawOf(u, v)

\* main.py 176: while len(train_neg_edges) < len(train_pos_edges)
TrainNegWhile ==
    /\ pc = "train_neg_while"
    /\ pc' = IF Len(train_neg_edges) < Len(train_pos_edges)
             THEN "train_neg_draw" ELSE "carve"
    /\ UNCHANGED <<cfgVars, run, fold, edgeVars, posVars, testNegVars,
                   trainNegVars, carveVars, histVars, esVars, evalVars, auxVars>>

\* main.py 177-185
TrainNegDrawOf(u, v) ==
    /\ pc = "train_neg_draw"
    /\ u \in G.nodes /\ v \in G.nodes
    /\ IF TrainNegRejects(u, v, existing_edges, train_neg_set, test_neg_set)
       THEN UNCHANGED trainNegVars
       ELSE /\ train_neg_set' = train_neg_set \cup {Canon(<<u, v>>)}
            /\ train_neg_edges' = Append(train_neg_edges, <<u, v>>)
    /\ pc' = "train_neg_while"
    /\ UNCHANGED <<cfgVars, run, fold, edgeVars, posVars, testNegVars, carveVars,
                   histVars, esVars, evalVars, auxVars>>

TrainNegDraw == \E u \in G.nodes, v \in G.nodes : TrainNegDrawOf(u, v)

\* main.py 188-196: the two seeded shuffles and the validation carve-out.
\* The history keeps what run 1 produced for fold RefFold while a later run
\* is still to come.
Carve ==
    /\ pc = "carve"
    /\ train_pos_edges' = ShuffledTrainPos(stream, fold, train_pos_edges)
    /\ train_neg_edges' = ShuffledTrainNeg(stream, fold, train_neg_edges)
    /\ val_pos_edges' = ValPos(train_pos_edges')
    /\ final_train_pos' = FinalTrainPos(train_pos_edges')
    /\ val_neg_edges' = ValNeg(train_neg_edges', Len(train_pos_edges'))
    /\ first_run' = IF run = 1 /\ run < runs /\ fold = RefFold
                    THEN [train_pos |-> final_train_pos', val_pos |-> val_pos_edges',
                          test_pos |-> test_pos_edges, test_neg |-> test_neg_edges]
                    ELSE first_run
    /\ pc' = "fold_body"
    /\ UNCHANGED <<cfgVars, run, fold, edgeVars, test_pos_edges, testNegVars,
                   train_neg_set, test_count, esVars, evalVars, auxVars>>

\* main.py 199-272: the fold's data objects, training and evaluation read the
\* split and never write it.  The lists of the finished iteration are dead
\* (each is assigned again, main.py 152-196, before it is read) and are
\* cleared here, as is the history once the last run has passed fold RefFold.
FoldBody ==
    /\ pc = "fold_body"
    /\ pc' = "for_fold"
    /\ train_pos_edges' = <<>>
    /\ test_pos_edges' = <<>>
    /\ test_neg_edges' = <<>>
    /\ test_neg_set' = {}
    /\ train_neg_edges' = <<>>
    /\ train_neg_set' = {}
    /\ val_pos_edges' = <<>>
    /\ final_train_pos' = <<>>
    /\ val_neg_edges' = <<>>
    /\ first_run' = IF run = runs /\ fold = RefFold THEN None ELSE first_run
    /\ UNCHANGED <<cfgVars, run, fold, edgeVars, test_count, esVars, evalVars, auxVars>>

Next ==
    \/ RunNext
    \/ RunsDone
    \/ KFoldRaise
    \/ FoldNext
    \/ FoldsDone
    \/ TestNegWhile
    \/ TestNegDraw
    \/ TrainNegWhile
    \/ TrainNegDraw
    \/ Carve
    \/ FoldBody

Spec == Init /\ [][Next]_vars

(***************************************************************************)
(* One call of link_prediction_cross_validation (args.runs = 1) under fair *)
(* scheduling: the program keeps running while it can, and random.choice   *)
(* is fair, so that every ordered pair of nodes that can be drawn          *)
(* infinitely often is drawn infinitely often.                             *)
(***************************************************************************)
InitFair == SplitStart(1) /\ EsIdle /\ EvalIdle /\ AuxIdle

\* a draw the test-negative loop accepts, a draw the train-negative loop accepts
TestNegAccept ==
    \E u \in G.nodes, v \in G.nodes :
        ~TestNegRejects(u, v, existing_edges, test_neg_set) /\ TestNegDrawOf(u, v)

TrainNegAccept ==
    \E u \in G.nodes, v \in G.nodes :
        /\ ~TrainNegRejects(u, v, existing_edges, train_neg_set, test_neg_set)
        /\ TrainNegDrawOf(u, v)

\* a loop that draws again and again while an admissible pair exists does at
\* some point draw one
FairDraws == SF_vars(TestNegAccept) /\ SF_vars(TrainNegAccept)

FairSpec == InitFair /\ [][Next]_vars /\ WF_vars(Next) /\ FairDraws

(***************************************************************************)
(* The positive side of the splitter on its own.  The positive lists of a  *)
(* fold are a function of the canonical edges, the fold index and the      *)
(* seeded generators (main.py 152-153, 188-189, 191-194); the negative     *)
(* sampling between those lines reads them and never writes them.  This    *)
(* specification feeds edge lists of 4 to MaxEdges edges through that      *)
(* function, fold after fold.                                              *)
(***************************************************************************)
InitFolds ==
    /\ stream \in 1..NumSplitStreams
    /\ \E n \in (K - 1)..MaxEdges : G = [nodes |-> 0..7, edges |-> PoolEnum(n)]
    /\ runs = 1
    /\ run = 0
    /\ fold = 0
    /\ pc = "main"
    /\ all_positive_edges = <<>>
    /\ existing_edges = {}
    /\ train_pos_edges = <<>>
    /\ test_pos_edges = <<>>
    /\ test_neg_edges = <<>>
    /\ test_neg_set = {}
    /\ train_neg_edges = <<>>
    /\ train_neg_set = {}
    /\ val_pos_edges = <<>>
    /\ final_train_pos = <<>>
    /\ val_neg_edges = <<>>
    /\ test_count = <<>>
    /\ first_run = None
    /\ EsIdle
    /\ EvalIdle
    /\ AuxIdle

\* main.py 148-153 and 188-194 for the next fold
PosFold ==
    /\ pc = "for_fold"
    /\ Len(all_positive_edges) >= K
    /\ fold < K
    /\ fold' = fold + 1
    /\ test_pos_edges' = TestPos(stream, all_positive_edges, fold + 1)
    /\ train_pos_edges' =
         ShuffledTrainPos(stream, fold + 1,
                          TrainPosRaw(stream, all_positive_edges, fold + 1))
    /\ val_pos_edges' = ValPos(train_pos_edges')
    /\ final_train_pos' = FinalTrainPos(train_pos_edges')
    /\ test_count' = [e \in DOMAIN test_count |->
                        test_count[e] + (IF e \in Range(test_pos_edges') THEN 1 ELSE 0)]
    /\ pc' = "fold_body"
    /\ UNCHANGED <<cfgVars, run, edgeVars, testNegVars, trainNegVars,
                   val_neg_edges, first_run, esVars, evalVars, auxVars>>

NextFolds ==
    \/ RunNext
    \/ RunsDone
    \/ KFoldRaise
    \/ PosFold
    \/ FoldBody
    \/ FoldsDone

SpecFolds == InitFolds /\ [][NextFolds]_vars

(***************************************************************************)
(* Claims about the splitter.                                              *)
(***************************************************************************)
CanonSet(s) == {Canon(s[i]) : i \in 1..Len(s)}
CanonNoDup(s) == \A i, j \in 1..Len(s) : i # j => Canon(s[i]) # Canon(s[j])

C3_Balanced ==
    pc = "fold_body" =>
        LET raw == Len(all_positive_edges) - Len(test_pos_edges)
            tenth == raw \div 10
        IN  /\ Len(test_neg_edges) = Len(test_pos_edges)
            /\ Len(val_neg_edges) = Len(val_pos_edges)
            /\ Len(val_pos_edges) = (IF tenth >= 1 THEN tenth ELSE 1)
            /\ Len(val_pos_edges) >= 1

\* a carved fold of the 5-cycle: one test pair, four raw training positives
C3_Witness ==
    /\ pc = "fold_body"
    /\ Len(test_pos_edges) = 1
    /\ Len(test_neg_edges) = 1
    /\ Len(train_pos_edges) = 4
    /\ Len(val_neg_edges) = 1

\* C5: a later run of the runs loop produces, for fold RefFold, the training
\* and validation positives, the test positives and the test negatives that
\* run 1 produced for that fold.
C5_RunsIdentical ==
    (pc = "fold_body" /\ run > 1 /\ fold = RefFold) =>
        first_run = [train_pos |-> final_train_pos, val_pos |-> val_pos_edges,
                     test_pos |-> test_pos_edges, test_neg |-> test_neg_edges]

\* C1: in every fold of a graph with at least 5 canonical edges the test
\* positives, the validation positives and the final training positives are
\* pairwise disjoint, hold no edge twice, and together are exactly the
\* canonical positive edges.
C1_PositivesPartition ==
    pc = "fold_body" =>
        /\ Range(test_pos_edges) \cap Range(val_pos_edges) = {}
        /\ Range(test_pos_edges) \cap Range(final_train_pos) = {}
        /\ Range(val_pos_edges) \cap Range(final_train_pos) = {}
        /\ Range(test_pos_edges) \cup Range(val_pos_edges) \cup Range(final_train_pos)
             = Range(all_positive_edges)
        /\ NoDup(test_pos_edges \o val_pos_edges \o final_train_pos)

\* a fold of 25 edges: 5 test edges, 2 validation edges, 18 training edges
C1_Witness ==
    /\ pc = "fold_body"
    /\ Len(all_positive_edges) = 25
    /\ Len(test_pos_edges) = 5
    /\ Len(val_pos_edges) = 2
    /\ Len(final_train_pos) = 18

\* C4: over the 5 folds of one call every canonical edge is a test positive
\* of exactly one fold, and every test fold holds floor(n/5) or ceil(n/5)
\* edges, so that two test folds differ in size by at most one.
C4_TestFoldsPartition ==
    LET n == Len(all_positive_edges)
    IN  /\ \A e \in DOMAIN test_count : test_count[e] <= 1
        /\ pc = "fold_body" =>
              /\ NoDup(test_pos_edges)
              /\ Range(test_pos_edges) \subseteq Range(all_positive_edges)
              /\ Len(test_pos_edges) >= n \div K
              /\ Len(test_pos_edges) <= (n + K - 1) \div K
        /\ (n >= K /\ fold = K /\ pc \in {"for_fold", "main", "exit"}) =>
              \A e \in DOMAIN test_count : test_count[e] = 1

\* the call on 7 edges has returned after folds of 2, 2, 1, 1 and 1 edges
C4_Witness ==
    /\ Len(all_positive_edges) = 7
    /\ fold = K
    /\ pc = "main"
    /\ run = 1
    /\ \A e \in Range(all_positive_edges) : test_count[e] = 1

(***************************************************************************)
(* Exhaustion of the non-edge space.                                       *)
(***************************************************************************)
\* the canonical pairs of two different nodes that are not edges
NonEdges == {p \in G.nodes \X G.nodes : p[1] < p[2]} \ existing_edges

\* a sampling loop is asked for more negatives than admissible pairs remain
TestNegExhausted ==
    /\ pc \in {"test_neg_while", "test_neg_draw"}
    /\ Len(test_pos_edges) - Len(test_neg_edges)
         > Cardinality(NonEdges \ test_neg_set)

TrainNegExhausted ==
    /\ pc \in {"train_neg_while", "train_neg_draw"}
    /\ Len(train_pos_edges) - Len(train_neg_edges)
         > Cardinality(NonEdges \ (train_neg_set \cup test_neg_set))

\* C9: a sampling loop that is asked for more negatives than there are
\* admissible non-edges ends, after finitely many draws, in the error
\* "non-edge space exhausted".
C9_ExhaustionRaises ==
    [](TestNegExhausted \/ TrainNegExhausted => <>(pc = "non_edge_space_exhausted"))

(***************************************************************************)
(* The epoch loop of one fold: main.py 139 and 224-258.  The validation    *)
(* AUC that test() reports after an epoch is an input of the loop, drawn   *)
(* from AucLevels (percent).  The parameters of the model live in the cell *)
(* heap.live, which every training pass overwrites in place; the value of  *)
(* the parameters after the k-th pass is named k.                          *)
(***************************************************************************)
AucLevels == {0, 50, 55, 60}

\* patience = int((args.epochs / args.t) / 2)
Patience(e, tt) == e \div (2 * tt)

EsStart ==
    /\ epochs \in 1..MaxEpochs
    /\ t \in 1..MaxT
    /\ patience = Patience(epochs, t)
    /\ epoch = 0
    /\ es_pc = "init"
    /\ heap = [live |-> 0, snap |-> 0]
    /\ best_valid_AUC = 0
    /\ best_epoch = 0
    /\ cnt_wait = 0
    /\ best_state = None
    /\ valid_AUC = 0
    /\ aucs = <<>>
    /\ trained = 0
    /\ final_params = None

InitES == SplitIdle /\ EsStart /\ EvalIdle /\ AuxIdle

\* best_valid_AUC, best_epoch, cnt_wait = 0.0, 0, 0; best_state = None
EsInit ==
    /\ es_pc = "init"
    /\ best_valid_AUC' = 0
    /\ best_epoch' = 0
    /\ cnt_wait' = 0
    /\ best_state' = None
    /\ es_pc' = "for_epoch"
    /\ UNCHANGED <<epochs, t, patience, epoch, heap, valid_AUC, aucs, trained,
                   final_params, splitVars, evalVars, auxVars>>

\* for epoch in range(1, args.epochs + 1): loss = train(...)
Train ==
    /\ es_pc = "for_epoch"
    /\ epoch < epochs
    /\ epoch' = epoch + 1
    /\ trained' = trained + 1
    /\ heap' = [heap EXCEPT !.live = trained + 1]
    /\ es_pc' = "test"
    /\ UNCHANGED <<epochs, t, patience, best_valid_AUC, best_epoch, cnt_wait,
                   best_state, valid_AUC, aucs, final_params, splitVars, evalVars, auxVars>>

\* results = test(...); valid_AUC = results['AUC'][0]
Observe ==
    /\ es_pc = "test"
    /\ \E a \in AucLevels :
          /\ valid_AUC' = a
          /\ aucs' = Append(aucs, a)
    /\ es_pc' = "compare"
    /\ UNCHANGED <<epochs, t, patience, epoch, heap, best_valid_AUC, best_epoch,
                   cnt_wait, best_state, trained, final_params, splitVars, evalVars, auxVars>>

\* if valid_AUC > best_valid_AUC
Improves_on_ties(auc, best) == auc >= best
Improves(auc, best) == auc > best

\* {k: v.detach().cpu().clone() for k, v in model.state_dict().items()}: the
\* values of the live parameters are copied into a cell of their own, and
\* the snapshot refers to that cell
Snapshot_aliased(h) == [heap |-> h, ref |-> "live"]
Snapshot(h) == [heap |-> [h EXCEPT !.snap = h.live], ref |-> "snap"]

\* main.py 243-247
Improve ==
    /\ es_pc = "compare"
    /\ Improves(valid_AUC, best_valid_AUC)
    /\ best_valid_AUC' = valid_AUC
    /\ best_epoch' = epoch
    /\ heap' = Snapshot(heap).heap
    /\ best_state' = Snapshot(heap).ref
    /\ cnt_wait' = 0
    /\ es_pc' = "check"
    /\ UNCHANGED <<epochs, t, patience, epoch, valid_AUC, aucs, trained,
                   final_params, splitVars, evalVars, auxVars>>

\* main.py 248-249
NoImprove ==
    /\ es_pc = "compare"
    /\ ~Improves(valid_AUC, best_valid_AUC)
    /\ cnt_wait' = cnt_wait + 1
    /\ es_pc' = "check"
    /\ UNCHANGED <<epochs, t, patience, epoch, heap, best_valid_AUC, best_epoch,
                   best_state, valid_AUC, aucs, trained, final_params,
                   splitVars, evalVars, auxVars>>

\* if cnt_wait == patience
StopNow_when_exceeded(cnt, p) == cnt > p
StopNow(cnt, p) == cnt = p

\* main.py 251-253: break
EarlyStop ==
    /\ es_pc = "check"
    /\ StopNow(cnt_wait, patience)
    /\ es_pc' = "restore"
    /\ UNCHANGED <<epochs, t, patience, epoch, heap, best_valid_AUC, best_epoch,
                   cnt_wait, best_state, valid_AUC, aucs, trained, final_params,
                   splitVars, evalVars, auxVars>>

\* the body of the loop ends without break
Continue ==
    /\ es_pc = "check"
    /\ ~StopNow(cnt_wait, patience)
    /\ es_pc' = "for_epoch"
    /\ UNCHANGED <<epochs, t, patience, epoch, heap, best_valid_AUC, best_epoch,
                   cnt_wait, best_state, valid_AUC, aucs, trained, final_params,
                   splitVars, evalVars, auxVars>>

\* range(1, args.epochs + 1) is exhausted
EpochsDone ==
    /\ es_pc = "for_epoch"
    /\ epoch = epochs
    /\ es_pc' = "restore"
    /\ UNCHANGED <<epochs, t, patience, epoch, heap, best_valid_AUC, best_epoch,
                   cnt_wait, best_state, valid_AUC, aucs, trained, final_params,
                   splitVars, evalVars, auxVars>>

\* if best_state is not None: model.load_state_dict(best_state), which copies
\* the values of the snapshot into the live parameters
Restore ==
    /\ es_pc = "restore"
    /\ best_state # None
    /\ heap' = [heap EXCEPT !.live = heap[best_state]]
    /\ es_pc' = "final_test"
    /\ UNCHANGED <<epochs, t, patience, epoch, best_valid_AUC, best_epoch,
                   cnt_wait, best_state, valid_AUC, aucs, trained, final_params,
                   splitVars, evalVars, auxVars>>

RestoreSkip ==
    /\ es_pc = "restore"
    /\ best_state = None
    /\ es_pc' = "final_test"
    /\ UNCHANGED <<epochs, t, patience, epoch, heap, best_valid_AUC, best_epoch,
                   cnt_wait, best_state, valid_AUC, aucs, trained, final_params,
                   splitVars, evalVars, auxVars>>

\* final = test(model, ...): the evaluation reads the live parameters
FinalTest ==
    /\ es_pc = "final_test"
    /\ final_params' = heap.live
    /\ es_pc' = "done"
    /\ UNCHANGED <<epochs, t, patience, epoch, heap, best_valid_AUC, best_epoch,
                   cnt_wait, best_state, valid_AUC, aucs, trained, splitVars,
                   evalVars, auxVars>>

NextES ==
    \/ EsInit
    \/ Train
    \/ Observe
    \/ Improve
    \/ NoImprove
    \/ EarlyStop
    \/ Continue
    \/ EpochsDone
    \/ Restore
    \/ RestoreSkip
    \/ FinalTest

SpecES == InitES /\ [][NextES]_vars

(***************************************************************************)
(* batched_scores of test(), main.py 75-80 (main-Copy1.py 74-96 scores its *)
(* pairs the same way).  A tensor is its shape and its values in row-major *)
(* order; the pairs of edge_idx are numbered 1..n_pairs.                   *)
(***************************************************************************)
\* the probability the decoder gives to pair i under the fixed embedding z
Score(i) == (i * 37 + 11) % 101

\* model.edge_decoder(z, edge): one row of one probability per pair
Decoder(perm) ==
    [shape |-> <<Len(perm), 1>>, data |-> [j \in 1..Len(perm) |-> Score(perm[j])]]

\* Tensor.squeeze(): every dimension of size 1 is removed
IsNotOne(d) == d # 1
Squeeze(x) == [shape |-> SelectSeq(x.shape, IsNotOne), data |-> x.data]

\* the batch that DataLoader(range(n), batch_size) yields after `start` items
Batch(n, bs, start) == [j \in 1..Min(bs, n - start) |-> start + j]

\* torch.cat refuses a zero-dimensional tensor
CatRaises(list) == \E k \in 1..Len(list) : Len(list[k].shape) = 0

RECURSIVE CatData(_)
CatData(list) ==
    IF list = <<>> THEN <<>> ELSE Head(list).data \o CatData(Tail(list))

\* torch.cat(preds, dim=0) of one-dimensional tensors
Cat(list) == [shape |-> <<Len(CatData(list))>>, data |-> CatData(list)]

\* torch.empty(0)
Empty0 == [shape |-> <<0>>, data |-> <<>>]

\* torch.ones_like(x)
ones_like(x) == [shape |-> x.shape, data |-> [i \in 1..Len(x.data) |-> 1]]

EvalStart ==
    /\ n_pairs \in 0..MaxPairs
    /\ batch_size \in 1..MaxBatch
    /\ next_idx = 0
    /\ preds = <<>>
    /\ pred = None
    /\ labels = None
    /\ ev_pc = "for_perm"

InitEval == SplitIdle /\ EsIdle /\ EvalStart /\ AuxIdle

\* edge = edge_idx[:, perm]; preds += [model.edge_decoder(z, edge).squeeze().cpu()]
ScoreBatch ==
    /\ ev_pc = "for_perm"
    /\ next_idx < n_pairs
    /\ preds' = Append(preds, Squeeze(Decoder(Batch(n_pairs, batch_size, next_idx))))
    /\ next_idx' = next_idx + Len(Batch(n_pairs, batch_size, next_idx))
    /\ UNCHANGED <<n_pairs, batch_size, pred, labels, ev_pc, splitVars, esVars, auxVars>>

\* the loader is exhausted
LoaderDone ==
    /\ ev_pc = "for_perm"
    /\ next_idx = n_pairs
    /\ ev_pc' = "cat"
    /\ UNCHANGED <<n_pairs, batch_size, next_idx, preds, pred, labels,
                   splitVars, esVars, auxVars>>

\* return torch.cat(preds, dim=0) if preds else torch.empty(0)
CatOk ==
    /\ ev_pc = "cat"
    /\ preds # <<>>
    /\ ~CatRaises(preds)
    /\ pred' = Cat(preds)
    /\ ev_pc' = "labels"
    /\ UNCHANGED <<n_pairs, batch_size, next_idx, preds, labels, splitVars, esVars, auxVars>>

CatRaise ==
    /\ ev_pc = "cat"
    /\ preds # <<>>
    /\ CatRaises(preds)
    /\ ev_pc' = "RuntimeError"
    /\ UNCHANGED <<n_pairs, batch_size, next_idx, preds, pred, labels,
                   splitVars, esVars, auxVars>>

CatEmpty ==
    /\ ev_pc = "cat"
    /\ preds = <<>>
    /\ pred' = Empty0
    /\ ev_pc' = "labels"
    /\ UNCHANGED <<n_pairs, batch_size, next_idx, preds, labels, splitVars, esVars, auxVars>>

\* torch.ones_like(pos_valid_pred), main.py 88
Labels ==
    /\ ev_pc = "labels"
    /\ labels' = ones_like(pred)
    /\ ev_pc' = "done"
    /\ UNCHANGED <<n_pairs, batch_size, next_idx, preds, pred, splitVars, esVars, auxVars>>

NextEval ==
    \/ ScoreBatch
    \/ LoaderDone
    \/ CatOk
    \/ CatRaise
    \/ CatEmpty
    \/ Labels

SpecEval == InitEval /\ [][NextEval]_vars

(***************************************************************************)
(* Claims about the epoch loop.                                            *)
(***************************************************************************)
SetMax(S) == CHOOSE x \in S : \A y \in S : y <= x
SetMin(S) == CHOOSE x \in S : \A y \in S : x <= y

\* the validation AUC of epoch i strictly exceeded the best of 0.0 and the
\* AUCs of the epochs before it
StrictlyExceeded(i) == aucs[i] > SetMax({0} \cup {aucs[j] : j \in 1..(i - 1)})

\* b: the latest epoch <= e whose AUC strictly exceeded the best so far
LatestPeak(e) == SetMax({0} \cup {i \in 1..e : StrictlyExceeded(i)})

StopEpoch(e) == e - LatestPeak(e) = patience

LoopEnded == es_pc \in {"restore", "final_test", "done"}

\* C6: for patience >= 1 no training pass runs outside an epoch, no epoch
\* follows an epoch e with e - b = patience, and the loop has ended either at
\* such an epoch or after all epochs, none of which was such an epoch; for
\* patience 3 and the AUCs 50, 60, 55, 55, 55 it ends after epoch 5 with
\* best_epoch = 2.
C6_EarlyStopTiming ==
    patience >= 1 =>
        /\ trained = epoch
        /\ \A e \in 1..Len(aucs) :
              StopEpoch(e) =>
                  /\ epoch = e
                  /\ Len(aucs) = e
                  /\ es_pc \in {"compare", "check", "restore", "final_test", "done"}
        /\ LoopEnded =>
              \/ epoch >= 1 /\ StopEpoch(epoch)
              \/ epoch = epochs /\ \A e \in 1..epochs : ~StopEpoch(e)
        /\ (LoopEnded /\ patience = 3 /\ Len(aucs) >= 5
              /\ SubSeq(aucs, 1, 5) = <<50, 60, 55, 55, 55>>) =>
              epoch = 5 /\ best_epoch = 2

\* the loop has stopped early on the AUCs 50, 60, 55, 55, 55 with patience 3
C6_Witness ==
    /\ es_pc = "restore"
    /\ patience = 3
    /\ epochs > 5
    /\ aucs = <<50, 60, 55, 55, 55>>
    /\ epoch = 5
    /\ best_epoch = 2

\* C7: best_state is None exactly when no epoch improved on 0.0; a snapshot
\* holds the parameters left by the training pass of epoch best_epoch however
\* many passes followed it; the final evaluation reads those parameters, or
\* the parameters of the last pass when there is no snapshot.
C7_RestoresBestSnapshot ==
    es_pc \notin {"idle", "init"} =>
        /\ (best_state = None) <=> (best_epoch = 0)
        /\ best_state # None => heap[best_state] = best_epoch
        /\ es_pc = "done" =>
              final_params = (IF best_epoch = 0 THEN trained ELSE best_epoch)

\* the final evaluation ran three training passes after the snapshot
C7_Witness ==
    /\ es_pc = "done"
    /\ best_epoch = 2
    /\ trained = 5
    /\ final_params = 2

\* after an epoch's comparison best_valid_AUC is the maximum of 0 and the
\* AUCs seen, and best_epoch the earliest epoch with that AUC
C8_BestAfterEpoch ==
    es_pc \notin {"idle", "compare"} =>
        /\ best_valid_AUC = SetMax({0} \cup Range(aucs))
        /\ best_epoch = (IF best_valid_AUC = 0 THEN 0
                         ELSE SetMin({i \in 1..Len(aucs) : aucs[i] = best_valid_AUC}))

\* C8: best_valid_AUC never decreases, after every epoch it is the maximum
\* of 0.0 and the validation AUCs seen so far, and best_epoch is the earliest
\* epoch attaining it (0 if none exceeded 0.0).
C8_BestIsRunningMax ==
    [](C8_BestAfterEpoch) /\ [][best_valid_AUC' >= best_valid_AUC]_vars

\* epoch 3 has tied the best of epoch 2
C8_Witness ==
    /\ es_pc = "check"
    /\ aucs = <<50, 60, 60>>
    /\ best_valid_AUC = 60
    /\ best_epoch = 2
    /\ cnt_wait = 1

\* C13: whatever epochs and t are, the step that leaves the epoch loop by
\* break is taken only after an epoch whose validation AUC did not exceed
\* the best of the epochs before it.
C13_StopOnlyWhenWaiting ==
    [][(es_pc = "check" /\ es_pc' = "restore") => ~StrictlyExceeded(epoch)]_vars

(***************************************************************************)
(* Claims about the evaluator.                                             *)
(***************************************************************************)
\* C10: for n >= 1 pairs and any batch size the batched scoring ends with
\* the n scores of the n pairs in input order, as one vector of length n,
\* and with n labels.
C10_BatchingIsChunking ==
    (n_pairs >= 1 /\ ev_pc \in {"done", "RuntimeError"}) =>
        /\ ev_pc = "done"
        /\ pred = [shape |-> <<n_pairs>>, data |-> [i \in 1..n_pairs |-> Score(i)]]
        /\ Len(labels.data) = n_pairs

(***************************************************************************)
(* make_undirected_unique_edges, main.py 99-105, applied to enumerations   *)
(* of at most MaxEnum ordered pairs of different nodes 0..MaxNode; an      *)
(* enumeration may give an edge in either orientation and more than once.  *)
(***************************************************************************)
EnumPairs == {p \in (0..MaxNode) \X (0..MaxNode) : p[1] # p[2]}

Enumerations == UNION {[1..n -> EnumPairs] : n \in 0..MaxEnum}

\* the enumeration with the entries at the positions in S turned round
TurnedRound(e, S) ==
    [i \in 1..Len(e) |-> IF i \in S THEN <<e[i][2], e[i][1]>> ELSE e[i]]

InitCanon ==
    /\ SplitIdle /\ EsIdle /\ EvalIdle /\ TrainIdle /\ GraphIdle
    /\ enum \in Enumerations
    /\ canon = None
    /\ recanon = <<>>
    /\ flipped = <<>>
    /\ cn_pc = "call"

\* all_positive_edges = make_undirected_unique_edges(G)
Canonicalize ==
    /\ cn_pc = "call"
    /\ canon' = make_undirected_unique_edges(enum)
    /\ cn_pc' = "returned"
    /\ UNCHANGED <<enum, recanon, flipped, restOfCanon>>

\* the function applied to the list it returned
Recanonicalize ==
    /\ cn_pc = "returned"
    /\ recanon = <<>>
    /\ recanon' = <<make_undirected_unique_edges(canon)>>
    /\ UNCHANGED <<enum, canon, flipped, cn_pc, restOfCanon>>

\* the function applied to the same edges enumerated in other orientations
Reorient ==
    /\ cn_pc = "returned"
    /\ flipped = <<>>
    /\ \E S \in SUBSET (1..Len(enum)) :
          /\ S # {}
          /\ flipped' = <<make_undirected_unique_edges(TurnedRound(enum, S))>>
    /\ UNCHANGED <<enum, canon, recanon, cn_pc, restOfCanon>>

NextCanon ==
    \/ Canonicalize
    \/ Recanonicalize
    \/ Reorient

SpecCanon == InitCanon /\ [][NextCanon]_vars

(***************************************************************************)
(* Claims about the canonicalisation.                                      *)
(***************************************************************************)
\* the undirected edges an enumeration names
UndirectedEdges(e) == {{e[i][1], e[i][2]} : i \in 1..Len(e)}

\* C11: the list returned holds pairs (u, v) with u < v in strictly
\* ascending order, one for each undirected edge of the enumeration and no
\* other; it is the list returned for the same edges in any other
\* orientation, and the list returned when the function is given that list.
C11_CanonicalSortedUnique ==
    cn_pc = "returned" =>
        /\ \A i \in 1..Len(canon) : canon[i][1] < canon[i][2]
        /\ \A i \in 1..(Len(canon) - 1) :
              \/ canon[i][1] < canon[i + 1][1]
              \/ canon[i][1] = canon[i + 1][1] /\ canon[i][2] < canon[i + 1][2]
        /\ UndirectedEdges(canon) = UndirectedEdges(enum)
        /\ Len(canon) = Cardinality(UndirectedEdges(enum))
        /\ flipped # <<>> => flipped[1] = canon
        /\ recanon # <<>> => recanon[1] = canon

\* an edge given in both orientations, a second edge given turned round, and
\* both further applications made
C11_Witness ==
    /\ cn_pc = "returned"
    /\ enum = <<<<2, 1>>, <<1, 0>>, <<0, 1>>>>
    /\ canon = <<<<0, 1>>, <<1, 2>>>>
    /\ recanon # <<>>
    /\ flipped # <<>>

(***************************************************************************)
(* One call of train(), main.py 36-62 (main-Copy1.py 33-59 is the same     *)
(* code).  masked_edges holds tr_n >= 1 columns: the training edges in     *)
(* both directions and one self-loop per node.  The loader shuffles the    *)
(* columns; only the sizes of its batches matter here.  Every call of the  *)
(* encoder is numbered, and batch_z records, for each mini-batch, the      *)
(* number of the call whose embedding z scored it and the number of        *)
(* optimizer steps the parameters had taken when z was computed.           *)
(***************************************************************************)
InitTrain ==
    /\ SplitIdle /\ EsIdle /\ EvalIdle /\ CanonIdle /\ GraphIdle
    /\ tr_n \in 1..MaxTrainEdges
    /\ tr_bs \in 1..MaxBatch
    /\ tr_left = 0
    /\ encoder_calls = 0
    /\ opt_steps = 0
    /\ batch_z = <<>>
    /\ tr_pc = "call"

\* model.train(); the negatives are sampled; the loader is built over
\* range(masked_edges.size(1))
TrainEnter ==
    /\ tr_pc = "call"
    /\ tr_left' = tr_n
    /\ tr_pc' = "for_perm"
    /\ UNCHANGED <<tr_n, tr_bs, encoder_calls, opt_steps, batch_z, restOfTrain>>

\* one pass of the loop body, main.py 49-60: z = model.encoder(...), the
\* batch is scored with z, optimizer.step()
TrainBatch ==
    /\ tr_pc = "for_perm"
    /\ tr_left > 0
    /\ encoder_calls' = encoder_calls + 1
    /\ batch_z' = Append(batch_z, [call |-> encoder_calls + 1, params |-> opt_steps])
    /\ opt_steps' = opt_steps + 1
    /\ tr_left' = tr_left - Min(tr_bs, tr_left)
    /\ UNCHANGED <<tr_n, tr_bs, tr_pc, restOfTrain>>

\* the loader is exhausted: return loss.item()
TrainReturn ==
    /\ tr_pc = "for_perm"
    /\ tr_left = 0
    /\ tr_pc' = "returned"
    /\ UNCHANGED <<tr_n, tr_bs, tr_left, encoder_calls, opt_steps, batch_z,
                   restOfTrain>>

NextTrain ==
    \/ TrainEnter
    \/ TrainBatch
    \/ TrainReturn

SpecTrain == InitTrain /\ [][NextTrain]_vars

(***************************************************************************)
(* Claims about train().                                                   *)
(***************************************************************************)
\* C12: when a call of train() has returned, the encoder was called once in
\* it, and every mini-batch of the call was scored with the embedding of
\* that one call.
C12_EncoderOncePerEpoch ==
    tr_pc = "returned" =>
        /\ encoder_calls = 1
        /\ \A i \in 1..Len(batch_z) : batch_z[i].call = 1

(***************************************************************************)
(* The training graph of a fold: main.py 201 and 222, and its use by the   *)
(* encoder in train() (main.py 38, 50) and test() (main.py 68), over the   *)
(* positive side of the splitter.  An edge index is the sequence of its    *)
(* columns.  tg_fold is the fold whose Data object train_data is;          *)
(* enc_seen collects every edge index the encoder was given in that fold.  *)
(* The epoch loop runs at most GraphEpochs epochs and may leave by break   *)
(* after any of them.                                                      *)
(***************************************************************************)
\* bidir_edge_index, main.py 116-125
bidir_edge_index(edge_list) ==
    [i \in 1..(2 * Len(edge_list)) |->
        IF i % 2 = 1 THEN edge_list[(i + 1) \div 2]
        ELSE <<edge_list[i \div 2][2], edge_list[i \div 2][1]>>]

\* faulty variant: no self-loops are added
add_self_loops_none(edge_index, num_nodes) == edge_index

\* torch_geometric.utils.add_self_loops(edge_index, num_nodes=...): the
\* columns (i, i) for i = 0..num_nodes-1 are appended
add_self_loops(edge_index, num_nodes) ==
    edge_index \o [i \in 1..num_nodes |-> <<i - 1, i - 1>>]

\* data_full.num_nodes
NumNodes == Cardinality(G.nodes)

\* main.py 201-222: train_data is built for this fold
Assemble ==
    /\ pc = "fold_body"
    /\ tg_fold # fold
    /\ tg_fold' = fold
    /\ train_edge_index' = add_self_loops(bidir_edge_index(final_train_pos), NumNodes)
    /\ enc_seen' = {}
    /\ tg_epoch' = 0
    /\ tg_pc' = "for_epoch"
    /\ UNCHANGED <<mainVars, canonVars, trainVars>>

\* train(model, data_full, train_data, ...): the encoder is given
\* train_data.edge_index
GraphTrain ==
    /\ tg_pc = "for_epoch"
    /\ tg_epoch < GraphEpochs
    /\ tg_epoch' = tg_epoch + 1
    /\ enc_seen' = enc_seen \cup {train_edge_index}
    /\ tg_pc' = "test"
    /\ UNCHANGED <<train_edge_index, tg_fold, mainVars, canonVars, trainVars>>

\* test(model, data_full, train_data, ...), after which the loop goes on or
\* is left by break
GraphTest ==
    /\ tg_pc = "test"
    /\ enc_seen' = enc_seen \cup {train_edge_index}
    /\ tg_pc' \in {"for_epoch", "final_test"}
    /\ UNCHANGED <<train_edge_index, tg_fold, tg_epoch, mainVars, canonVars,
                   trainVars>>

\* the epochs are exhausted
GraphEpochsDone ==
    /\ tg_pc = "for_epoch"
    /\ tg_epoch = GraphEpochs
    /\ tg_pc' = "final_test"
    /\ UNCHANGED <<train_edge_index, tg_fold, tg_epoch, enc_seen, mainVars,
                   canonVars, trainVars>>

\* final = test(model, data_full, train_data, ...)
GraphFinalTest ==
    /\ tg_pc = "final_test"
    /\ enc_seen' = enc_seen \cup {train_edge_index}
    /\ tg_pc' = "done"
    /\ UNCHANGED <<train_edge_index, tg_fold, tg_epoch, mainVars, canonVars,
                   trainVars>>

\* the rest of the fold body, once the fold's model has been evaluated
GraphFoldBody ==
    /\ tg_fold = fold
    /\ tg_pc = "done"
    /\ FoldBody

NextGraph ==
    \/ RunNext
    \/ RunsDone
    \/ KFoldRaise
    \/ PosFold
    \/ Assemble
    \/ GraphTrain
    \/ GraphTest
    \/ GraphEpochsDone
    \/ GraphFinalTest
    \/ GraphFoldBody
    \/ FoldsDone

SpecGraph == InitFolds /\ [][NextGraph]_vars

(***************************************************************************)
(* Claims about the training graph.                                        *)
(***************************************************************************)
\* the columns the training graph of the current fold is to have
TrainingGraphColumns ==
    {p \in G.nodes \X G.nodes :
        \/ p \in Range(final_train_pos)
        \/ <<p[2], p[1]>> \in Range(final_train_pos)
        \/ p[1] = p[2]}

\* C14: in a fold whose train_data has been built, train_data.edge_index and
\* every edge index the encoder was given in the fold hold exactly the
\* final training positives in both directions and one self-loop per node,
\* each column once; the encoder was given one and the same edge index
\* throughout; and no validation or test positive of the fold is a column in
\* either direction.
C14_TrainingGraphLeakFree ==
    (pc = "fold_body" /\ tg_fold = fold) =>
        /\ enc_seen \subseteq {train_edge_index}
        /\ \A ei \in enc_seen \cup {train_edge_index} :
              /\ Range(ei) = TrainingGraphColumns
              /\ Len(ei) = 2 * Len(final_train_pos) + Cardinality(G.nodes)
              /\ \A p \in Range(val_pos_edges) \cup Range(test_pos_edges) :
                    p \notin Range(ei) /\ <<p[2], p[1]>> \notin Range(ei)

\* fold 2 of 25 edges has been trained for two epochs and evaluated
C14_Witness ==
    /\ pc = "fold_body"
    /\ fold = 2
    /\ tg_fold = 2
    /\ tg_pc = "done"
    /\ tg_epoch = 2
    /\ Len(all_positive_edges) = 25
    /\ enc_seen = {train_edge_index}
    /\ Len(train_edge_index) = 44

(***************************************************************************)
(* The epoch loop of the single-split script: main-Copy1.py 140 and        *)
(* 214-259.  It uses the variables of the epoch loop above; the script has *)
(* no best_state, which stays None.                                        *)
(***************************************************************************)
InitCopy == SplitIdle /\ EsStart /\ EvalIdle /\ AuxIdle

\* best_valid_AUC = 0.0; best_epoch = 0; cnt_wait = 0
CopyInit ==
    /\ es_pc = "init"
    /\ best_valid_AUC' = 0
    /\ best_epoch' = 0
    /\ cnt_wait' = 0
    /\ es_pc' = "for_epoch"
    /\ UNCHANGED <<epochs, t, patience, epoch, heap, best_state, valid_AUC, aucs,
                   trained, final_params, splitVars, evalVars, auxVars>>

\* for epoch in range(1, 1 + args.epochs): loss = train(...)
CopyTrain ==
    /\ es_pc = "for_epoch"
    /\ epoch < epochs
    /\ epoch' = epoch + 1
    /\ trained' = trained + 1
    /\ heap' = [heap EXCEPT !.live = trained + 1]
    /\ es_pc' = "test"
    /\ UNCHANGED <<epochs, t, patience, best_valid_AUC, best_epoch, cnt_wait,
                   best_state, valid_AUC, aucs, final_params, splitVars,
                   evalVars, auxVars>>

\* results = test(...); valid_result_AUC = results['AUC'][0]
CopyObserve ==
    /\ es_pc = "test"
    /\ \E a \in AucLevels :
          /\ valid_AUC' = a
          /\ aucs' = Append(aucs, a)
    /\ es_pc' = "compare"
    /\ UNCHANGED <<epochs, t, patience, epoch, heap, best_valid_AUC, best_epoch,
                   cnt_wait, best_state, trained, final_params, splitVars,
                   evalVars, auxVars>>

\* main-Copy1.py 224-227: no snapshot is taken
CopyImprove ==
    /\ es_pc = "compare"
    /\ valid_AUC > best_valid_AUC
    /\ best_valid_AUC' = valid_AUC
    /\ best_epoch' = epoch
    /\ cnt_wait' = 0
    /\ es_pc' = "check"
    /\ UNCHANGED <<epochs, t, patience, epoch, heap, best_state, valid_AUC, aucs,
                   trained, final_params, splitVars, evalVars, auxVars>>

\* main-Copy1.py 228-229
CopyNoImprove ==
    /\ es_pc = "compare"
    /\ ~(valid_AUC > best_valid_AUC)
    /\ cnt_wait' = cnt_wait + 1
    /\ es_pc' = "check"
    /\ UNCHANGED <<epochs, t, patience, epoch, heap, best_valid_AUC, best_epoch,
                   best_state, valid_AUC, aucs, trained, final_params,
                   splitVars, evalVars, auxVars>>

\* main-Copy1.py 255-257: break, straight to the final test
CopyEarlyStop ==
    /\ es_pc = "check"
    /\ cnt_wait = patience
    /\ es_pc' = "final_test"
    /\ UNCHANGED <<epochs, t, patience, epoch, heap, best_valid_AUC, best_epoch,
                   cnt_wait, best_state, valid_AUC, aucs, trained, final_params,
                   splitVars, evalVars, auxVars>>

CopyContinue ==
    /\ es_pc = "check"
    /\ cnt_wait # patience
    /\ es_pc' = "for_epoch"
    /\ UNCHANGED <<epochs, t, patience, epoch, heap, best_valid_AUC, best_epoch,
                   cnt_wait, best_state, valid_AUC, aucs, trained, final_params,
                   splitVars, evalVars, auxVars>>

\* the range is exhausted
CopyEpochsDone ==
    /\ es_pc = "for_epoch"
    /\ epoch = epochs
    /\ es_pc' = "final_test"
    /\ UNCHANGED <<epochs, t, patience, epoch, heap, best_valid_AUC, best_epoch,
                   cnt_wait, best_state, valid_AUC, aucs, trained, final_params,
                   splitVars, evalVars, auxVars>>

\* results = test(model, ...), printed with 'Best Epoch'
CopyFinalTest ==
    /\ es_pc = "final_test"
    /\ final_params' = heap.live
    /\ es_pc' = "done"
    /\ UNCHANGED <<epochs, t, patience, epoch, heap, best_valid_AUC, best_epoch,
                   cnt_wait, best_state, valid_AUC, aucs, trained, splitVars,
                   evalVars, auxVars>>

NextCopy ==
    \/ CopyInit
    \/ CopyTrain
    \/ CopyObserve
    \/ CopyImprove
    \/ CopyNoImprove
    \/ CopyEarlyStop
    \/ CopyContinue
    \/ CopyEpochsDone
    \/ CopyFinalTest

SpecCopy == InitCopy /\ [][NextCopy]_vars

(***************************************************************************)
(* Claims about the single-split script.                                   *)
(***************************************************************************)
\* C15: when some epoch improved on 0.0, the final evaluation reported with
\* 'Best Epoch' reads the parameters left by the training pass of best_epoch.
C15_FinalUsesBestParams ==
    (es_pc = "done" /\ best_epoch >= 1) => final_params = best_epoch

(***************************************************************************)
(* Termination of the negative sampling of a fold.                         *)
(***************************************************************************)
\* the graph has at least as many non-edges as edges: C(N,2) - |E| >= |E|
EnoughNonEdges ==
    LET N == Cardinality(G.nodes)
        E == Cardinality(UndirectedEdges(G.edges))
    IN  (N * (N - 1)) \div 2 - E >= E

\* no fold of a graph with fewer non-edges than edges leaves the loops
C16_NoCarveWhenSparse == ~EnoughNonEdges => pc \notin {"carve", "fold_body"}

\* C16: under fair draws, a fold that has entered its test-negative loop
\* gets through that loop and the train-negative loop to the carve-out if
\* the graph has at least as many non-edges as edges, and no fold of a graph
\* with fewer non-edges than edges ever gets there.
C16_SamplingTerminatesIffDense ==
    /\ [](C16_NoCarveWhenSparse)
    /\ ((EnoughNonEdges /\ pc = "test_neg_while") ~> (pc = "carve"))

\* the last fold of the 5-cycle has left both loops with all five non-edges
\* of the graph drawn
C16_Witness ==
    /\ pc = "carve"
    /\ EnoughNonEdges
    /\ fold = K
    /\ Len(test_neg_edges) = 1
    /\ Len(train_neg_edges) = 4
    /\ test_neg_set \cup train_neg_set = NonEdges

=============================================================================
